---- MODULE Spec2Model ----
(***************************************************************************)
(* DocMate service (src/docmate_service.py): a Flask application with a    *)
(* repository-index cache guarded by one lock, a POST /query handler, a    *)
(* GET /health handler and a start-up check of the environment.            *)
(*                                                                         *)
(* Python strings that the code takes apart or puts together (repository   *)
(* names, branch names, cache keys) are sequences of one-character         *)
(* strings; opaque texts (queries, answers, messages) are TLA+ strings.    *)
(* Index objects are numbered in the order they are built; None is 0.      *)
(***************************************************************************)
EXTENDS Integers, Sequences, FiniteSets

\* ---------------------------------------------------------------- bounds
MaxThreads == 2
MaxRequests == 2

Threads == 1..MaxThreads

\* ------------------------------------------------------- program constants
None == 0
NoThread == 0
similarity_top_k == 3

required_vars == {"GITHUB_TOKEN", "OPENAI_API_KEY"}

main == <<"m", "a", "i", "n">>

\* ------------------------------------------------------------------ inputs
\* Repository identifiers and branch names a client may send.  Only the first
\* two '/'-separated segments of an identifier are used (lines 41-42).
repo_o_r == <<"o", "/", "r">>
repo_o_r_x == <<"o", "/", "r", "/", "x">>
repo_o_r_x_d == <<"o", "/", "r", "/", "x", ":", "d">>
repo_o == <<"o">>
dev == <<"d", "e", "v">>
d_main == <<"d", ":", "m", "a", "i", "n">>

\* Answers and ranked passage texts the external query engine may produce:
\* no passage, or two passages in either order.
Answers == { "answer" }
Rankings == { <<>>, <<"p1", "p2">>, <<"p2", "p1">> }

\* ------------------------------------------------------------- JSON bodies
Json(kind, keys, repo, branch, num) ==
    [kind |-> kind, keys |-> keys, repo |-> repo, query |-> "what is this?",
     branch |-> branch, num |-> num]

\* A request with no JSON body.
NoBody == Json("absent", {}, <<>>, <<>>, 0)

\* JSON objects with both required fields, with and without `branch`.
FullBodies ==
    { Json("object", {"repo", "query"}, repo_o_r, <<>>, 0),
      Json("object", {"repo", "query", "branch"}, repo_o_r, main, 0),
      Json("object", {"repo", "query", "branch"}, repo_o_r, dev, 0),
      Json("object", {"repo", "query", "branch"}, repo_o_r_x_d, main, 0),
      Json("object", {"repo", "query", "branch"}, repo_o_r_x, d_main, 0),
      Json("object", {"repo", "query"}, repo_o, <<>>, 0) }

\* What request.get_json() can be given: no JSON body at all, a JSON object
\* with some or all of the fields, or a JSON number.
Bodies ==
    { NoBody,
      Json("object", {}, <<>>, <<>>, 0),
      Json("object", {"query"}, <<>>, <<>>, 0),
      Json("object", {"repo"}, repo_o_r, <<>>, 0),
      Json("number", {}, <<>>, <<>>, 1) }
    \cup FullBodies

\* -------------------------------------------------------------- exceptions
Exc(type, msg) == [type |-> type, msg |-> msg]
NoExc == Exc("", "")

\* str(e)
Str(e) == e.msg

\* ---------------------------------------------------------------- strings
\* s.split(sep): the segments of s between occurrences of sep.
RECURSIVE SplitFrom(_, _, _, _)
SplitFrom(s, sep, i, cur) ==
    IF i > Len(s) THEN <<cur>>
    ELSE IF s[i] = sep THEN <<cur>> \o SplitFrom(s, sep, i + 1, <<>>)
    ELSE SplitFrom(s, sep, i + 1, Append(cur, s[i]))

Split(s, sep) == SplitFrom(s, sep, 1, <<>>)

\* f"{repo_name}:{branch}"
CacheKey(repo_name, branch) == repo_name \o <<":">> \o branch

\* Mutant of BranchOf: no default, an omitted branch is the empty name.
BranchOfNoDefault(data) == data.branch

\* data.get('branch', 'main')
BranchOf(data) == IF "branch" \in data.keys THEN data.branch ELSE main

\* The cache keys the requests above lead to.
Keys == { CacheKey(b.repo, BranchOf(b)) : b \in FullBodies }

\* ------------------------------------------------------------------- state
VARIABLES
    environ,       \* names of the environment variables that are set
    server,        \* "__main__" (run as a script, before line 147), "imported"
                   \* (loaded by a host), "running" (requests are served),
                   \* "aborted" (start-up raised)
    repo_cache,    \* dict: cache key -> index
    cache_lock,    \* thread holding cache_lock, or NoThread
    pc,            \* per request thread: where it is in its handler
    request,       \* per thread: the request being handled
    frame,         \* per thread: the locals of its handler and callees
    response,      \* per thread: the response of query_docs / health_check
    nreq,          \* requests accepted so far
    built,         \* indexes built so far (the next index is built + 1)
    okLoads,       \* per key: invocations that returned an index
    returned,      \* per key: the index get_or_create_index last returned, or None
    overlap,       \* threads whose current get_or_create_index call overlapped one for the same key
    open_clients,  \* Github clients opened and not yet closed
    built_from     \* per index built: the repo_name and branch its
                   \* load_github_docs invocation was given

vars == <<environ, server, repo_cache, cache_lock, pc, request, frame,
          response, nreq, built, okLoads, returned, overlap,
          open_clients, built_from>>

\* ------------------------------------------------------------------ frames
\* The locals of query_docs, get_or_create_index and load_github_docs.
\*   repo, branch : query_docs' locals (lines 111, 113)
\*   cache_key    : get_or_create_index's local (line 82)
\*   load         : "" (load_github_docs not called), "called", "returned"
\*                  or "raised"
\*   g            : TRUE once load_github_docs has bound g (line 38)
\*   ret          : the value load_github_docs returns (at `return`, pending
\*                  while the finally clause runs)
\*   cause        : why it is about to return that value (the caller cannot
\*                  tell: cleared when the function returns)
\*   closed       : TRUE once g.close() has completed (line 76)
\*   index        : query_docs' local (line 116)
\*   exc          : the exception that reached query_docs, or NoExc
\*   result       : the query engine's answer, or NoResult
NoResult == [response |-> "", source_nodes |-> <<>>]

NoFrame ==
    [repo |-> <<>>, branch |-> <<>>, cache_key |-> <<>>, load |-> "",
     g |-> FALSE, ret |-> None, cause |-> "", closed |-> FALSE,
     index |-> None, exc |-> NoExc, result |-> NoResult]

\* --------------------------------------------------------------- responses
Body(keys, error, resp, sources, status) ==
    [keys |-> keys, error |-> error, response |-> resp, sources |-> sources,
     status |-> status]

\* jsonify({'error': msg})
ErrorBody(msg) == Body({"error"}, msg, "", <<>>, "")

HttpResponse(status, body) == [status |-> status, body |-> body]
NoResponse == HttpResponse(0, Body({}, "", "", <<>>, ""))

Request(route, body) == [route |-> route, body |-> body]
NoRequest == Request("", NoBody)

\* -------------------------------------------------------------------- Init
\* The module has been imported or is being run as a script; load_dotenv()
\* has filled the environment (any subset of the two variables may be set).
Init ==
    /\ environ \in SUBSET required_vars
    /\ server \in { "__main__", "imported" }
    /\ repo_cache = [k \in {} |-> None]
    /\ cache_lock = NoThread
    /\ pc = [t \in Threads |-> "idle"]
    /\ request = [t \in Threads |-> NoRequest]
    /\ frame = [t \in Threads |-> NoFrame]
    /\ response = [t \in Threads |-> NoResponse]
    /\ nreq = 0
    /\ built = 0
    /\ okLoads = [k \in Keys |-> 0]
    /\ returned = [k \in Keys |-> None]
    /\ overlap = {}
    /\ open_clients = 0
    /\ built_from = <<>>

\* ----------------------------------------------------------- small helpers
SetFrame(t, f) == frame' = [frame EXCEPT ![t] = f]
Goto(t, label) == pc' = [pc EXCEPT ![t] = label]

\* The handler returns a response: the framework sends it, and the request
\* and the handler's locals are gone.
Respond(t, status, body) ==
    /\ response' = [response EXCEPT ![t] = HttpResponse(status, body)]
    /\ request' = [request EXCEPT ![t] = NoRequest]
    /\ SetFrame(t, NoFrame)
    /\ overlap' = overlap \ {t}
    /\ Goto(t, "done")

\* An exception is raised at the thread's current position, f being its
\* locals there.
Raise(t, f, e) ==
    /\ SetFrame(t, [f EXCEPT !.exc = e])
    /\ Goto(t, "raised")

\* Mutant of Get: a lookup that never finds the key.
GetMissing(cache, key) == None

\* dict.get(key): the value stored under key, None when the key is absent.
Get(cache, key) == IF key \in DOMAIN cache THEN cache[key] ELSE None

\* Mutant of Put: a one-entry cache, the new entry evicts the others.
PutEvicting(cache, key, value) == [k \in {key} |-> value]

\* dict[key] = value
Put(cache, key, value) ==
    [k \in DOMAIN cache \cup {key} |-> IF k = key THEN value ELSE cache[k]]

\* Python truth value of an index-or-None.
Truthy(x) == x # None

\* The labels at which a thread is inside get_or_create_index.
InGetOrCreate ==
    { "get_or_create_index", "load_github_docs", "finally", "store", "return" }

\* The labels at which a thread is inside load_github_docs.
InLoad == { "load_github_docs", "finally" }

\* ----------------------------------------------------------------- startup
\* Lines 147-155, run as a script: the environment check, then app.run.
MainStartup ==
    /\ server = "__main__"
    /\ LET missing_vars == { v \in required_vars : v \notin environ }
       IN  server' = IF missing_vars # {} THEN "aborted" ELSE "running"
    /\ UNCHANGED <<environ, repo_cache, cache_lock, pc, request, frame,
                   response, nreq, built, okLoads, returned,
                   overlap, open_clients, built_from>>

\* Line 147 when the module is imported (flask run, a WSGI host): the block
\* under the `if` is skipped and the host serves `app` (line 17).
ImportedServe ==
    /\ server = "imported"
    /\ server' = "running"
    /\ UNCHANGED <<environ, repo_cache, cache_lock, pc, request, frame,
                   response, nreq, built, okLoads, returned,
                   overlap, open_clients, built_from>>

\* ---------------------------------------------------------------- dispatch
\* The framework hands a request to a thread (lines 91, 142): POST /query
\* or GET /health.
AcceptRequest(t) ==
    /\ server = "running"
    /\ pc[t] \in { "idle", "done", "escaped" }
    /\ nreq < MaxRequests
    /\ nreq' = nreq + 1
    /\ \E r \in { Request("POST /query", b) : b \in Bodies }
               \cup { Request("GET /health", NoBody) } :
          /\ request' = [request EXCEPT ![t] = r]
          /\ Goto(t, IF r.route = "GET /health" THEN "health_check" ELSE "query_docs")
    /\ SetFrame(t, NoFrame)
    /\ response' = [response EXCEPT ![t] = NoResponse]
    /\ UNCHANGED <<environ, server, repo_cache, cache_lock, built, okLoads, returned, overlap, open_clients, built_from>>

\* ------------------------------------------------------------ health_check
\* jsonify({'status': 'healthy'})
HealthBody == Body({"status"}, "", "", <<>>, "healthy")

\* Mutant of HealthCheck: the handler takes cache_lock before it answers.
HealthCheckUnderLock(t) ==
    /\ pc[t] = "health_check"
    /\ cache_lock = NoThread
    /\ Respond(t, 200, HealthBody)
    /\ UNCHANGED <<environ, server, repo_cache, cache_lock, nreq, built,
                   okLoads, returned, open_clients, built_from>>

\* Lines 142-145.
HealthCheck(t) ==
    /\ pc[t] = "health_check"
    /\ Respond(t, 200, HealthBody)
    /\ UNCHANGED <<environ, server, repo_cache, cache_lock, nreq, built,
                   okLoads, returned, open_clients, built_from>>

\* -------------------------------------------------------------- query_docs
\* `not data`
Falsy(data) ==
    \/ data.kind = "absent"
    \/ data.kind = "object" /\ data.keys = {}
    \/ data.kind = "number" /\ data.num = 0

\* `k in data` for a dict: k is one of its keys.
Contains(data, k) == k \in data.keys

\* What request.get_json() does with the request (line 104): it returns the
\* parsed value.  With no JSON body it returns None (the content type is not
\* JSON and the framework is an older one) or raises an HTTP exception (an
\* empty body declared as JSON, or a newer framework): the source fixes
\* neither the framework version nor the client's headers.
GetJsonOutcomes(body) ==
    IF body.kind = "absent" THEN { "None", "raise" } ELSE { "value" }

\* Lines 106-113 on the value get_json returned: "400", an exception, "ok".
Validate(data) ==
    IF Falsy(data) THEN "400"
    ELSE IF data.kind = "number" THEN "TypeError"
    ELSE IF ~Contains(data, "repo") \/ ~Contains(data, "query") THEN "400"
    ELSE "ok"

\* The exception behind an outcome of lines 104-113.
ValidateExc(v) ==
    IF v = "HTTPException"
    THEN Exc("HTTPException", "415 Unsupported Media Type")
    ELSE Exc("TypeError", "argument of type 'int' is not iterable")

\* Lines 103-116: read and validate the body, bind repo, query and branch,
\* and call get_or_create_index (line 82 computes the cache key).
QueryDocsValidate(t) ==
    /\ pc[t] = "query_docs"
    /\ \E o \in GetJsonOutcomes(request[t].body) :
          LET data == request[t].body
              v == IF o = "raise" THEN "HTTPException" ELSE Validate(data)
          IN  CASE v = "400" ->
                     Respond(t, 400, ErrorBody("Missing required parameters"))
                [] v = "ok" ->
                     LET key == CacheKey(data.repo, BranchOf(data))
                         others == { u \in Threads \ {t} :
                                       /\ pc[u] \in InGetOrCreate
                                       /\ frame[u].cache_key = key }
                     IN  /\ SetFrame(t, [frame[t] EXCEPT
                                           !.repo = data.repo,
                                           !.branch = BranchOf(data),
                                           !.cache_key = key])
                         /\ overlap' = IF others # {} THEN overlap \cup others \cup {t}
                                       ELSE overlap
                         /\ Goto(t, "get_or_create_index")
                         /\ UNCHANGED <<request, response>>
                [] OTHER ->
                     /\ Raise(t, frame[t], ValidateExc(v))
                     /\ UNCHANGED <<request, response, overlap>>
    /\ UNCHANGED <<environ, server, repo_cache, cache_lock, nreq, built,
                   okLoads, returned, open_clients, built_from>>

\* Mutant of Catches: an except clause that names only the errors of the
\* request and of the provider.
CatchesRequestErrors(e) == e.type \in { "HTTPException", "TypeError", "APIError" }

\* The classes of the exceptions the handler's code raises; each is a
\* subclass of Exception.
ExceptionClasses ==
    { "HTTPException", "TypeError", "ValueError", "IndexError",
      "UnboundLocalError", "APIError" }

\* `except Exception` (line 137): isinstance(e, Exception).
Catches(e) == e.type \in ExceptionClasses

\* Mutant of ReleasedOnExit: an exception leaves the lock with its holder.
KeptOnExit(t) == cache_lock

\* The exit of the `with cache_lock:` block (line 84) taken by an exception:
\* the lock, if thread t holds it, is released.
ReleasedOnExit(t) == IF cache_lock = t THEN NoThread ELSE cache_lock

\* An exception in flight unwinds: if it leaves the `with` block of line 84
\* the lock is released; query_docs' except clause (lines 137-140) answers
\* 500 with str(e).
Except(t) ==
    /\ pc[t] = "raised"
    /\ cache_lock' = ReleasedOnExit(t)
    /\ IF Catches(frame[t].exc)
       THEN Respond(t, 500, ErrorBody(Str(frame[t].exc)))
       ELSE /\ Goto(t, "escaped")
            /\ UNCHANGED <<request, frame, response, overlap>>
    /\ UNCHANGED <<environ, server, repo_cache, nreq, built, okLoads, returned, open_clients, built_from>>

\* ----------------------------------------------------- get_or_create_index
\* Mutant of LockFree: the lock is never waited for.
LockIgnored == TRUE

\* cache_lock can be acquired (line 84).
LockFree == cache_lock = NoThread

\* Mutant of CacheHit: the membership test never finds the key.
CacheNeverHit(key) == FALSE

\* `cache_key not in repo_cache` is false (line 85).
CacheHit(key) == key \in DOMAIN repo_cache

\* Mutant of ShouldStore: the result is stored without the `if index:` test.
StoreAlways(index) == TRUE

\* `if index:` (line 87).
ShouldStore(index) == Truthy(index)

\* Mutant of AcquireLock: one lock per cache key, so that a call waits only
\* for a call for the same key.
AcquireLockPerKey(t) ==
    /\ pc[t] = "get_or_create_index"
    /\ \A u \in Threads \ {t} :
          pc[u] \in InGetOrCreate \ {"get_or_create_index"}
             => frame[u].cache_key # frame[t].cache_key
    /\ cache_lock' = t
    /\ LET key == frame[t].cache_key
       IN  IF CacheHit(key)
           THEN /\ Goto(t, "return")
                /\ UNCHANGED frame
           ELSE /\ Goto(t, "load_github_docs")
                /\ SetFrame(t, [frame[t] EXCEPT !.load = "called"])
    /\ UNCHANGED <<environ, server, repo_cache, request, response, nreq,
                   built, okLoads, returned, overlap, open_clients, built_from>>

\* Lines 84-86: `with cache_lock:` blocks until the lock is free, then holds
\* it; on a miss load_github_docs(repo_name, branch=branch) is called,
\* otherwise control is at the return statement.
AcquireLock(t) ==
    /\ pc[t] = "get_or_create_index"
    /\ LockFree
    /\ cache_lock' = t
    /\ LET key == frame[t].cache_key
       IN  IF CacheHit(key)
           THEN /\ Goto(t, "return")
                /\ UNCHANGED frame
           ELSE /\ Goto(t, "load_github_docs")
                /\ SetFrame(t, [frame[t] EXCEPT !.load = "called"])
    /\ UNCHANGED <<environ, server, repo_cache, request, response, nreq,
                   built, okLoads, returned, overlap, open_clients, built_from>>

\* -------------------------------------------------------- load_github_docs
\* What the external services can do in lines 45-69 once the repository name
\* has been split: one of get_repo, get_branch, load_data and from_documents
\* raises, load_data returns no documents, or the index is built (which
\* needs the LLM provider's key).
ExternalOutcomes ==
    { "exception", "zero_docs" }
    \cup (IF "OPENAI_API_KEY" \in environ THEN { "index" } ELSE {})

\* Lines 30-74, the try block and its except clause.  github_token is None at
\* the only call site (line 86), so the token comes from the environment;
\* without one ValueError is raised before g is bound.  With one, g is bound
\* to a new Github client, the name is split (IndexError when it has no '/'),
\* the branch is resolved, the documents are fetched and the index is built.
\* Every exception is caught at line 71 and turned into `return None`.
LoadTry(t) ==
    /\ pc[t] = "load_github_docs"
    /\ IF "GITHUB_TOKEN" \notin environ
       THEN /\ SetFrame(t, [frame[t] EXCEPT !.ret = None, !.cause = "no_token"])
            /\ UNCHANGED <<open_clients, built, built_from>>
       ELSE /\ open_clients' = open_clients + 1
            /\ IF Len(Split(frame[t].repo, "/")) < 2
               THEN /\ SetFrame(t, [frame[t] EXCEPT !.g = TRUE, !.ret = None,
                                                     !.cause = "malformed"])
                    /\ UNCHANGED <<built, built_from>>
               ELSE \E o \in ExternalOutcomes :
                      IF o = "index"
                      THEN /\ SetFrame(t, [frame[t] EXCEPT !.g = TRUE,
                                              !.ret = built + 1, !.cause = o])
                           /\ built' = built + 1
                           /\ built_from' = Append(built_from,
                                                [repo_name |-> frame[t].repo,
                                                 branch |-> frame[t].branch])
                      ELSE /\ SetFrame(t, [frame[t] EXCEPT !.g = TRUE,
                                              !.ret = None, !.cause = o])
                           /\ UNCHANGED <<built, built_from>>
    /\ Goto(t, "finally")
    /\ UNCHANGED <<environ, server, repo_cache, cache_lock, request, response,
                   nreq, okLoads, returned, overlap>>

\* Lines 75-76: `finally: g.close()`.  With g bound the client is closed and
\* the pending value is returned to line 86.  With g unbound the reference
\* raises UnboundLocalError (its message is that of CPython before 3.11),
\* which replaces the pending return and leaves load_github_docs.
LoadFinally(t) ==
    /\ pc[t] = "finally"
    /\ IF frame[t].g
       THEN /\ SetFrame(t, [frame[t] EXCEPT !.closed = TRUE, !.load = "returned",
                                             !.cause = ""])
            /\ open_clients' = open_clients - 1
            /\ okLoads' = IF frame[t].ret # None
                          THEN [okLoads EXCEPT ![frame[t].cache_key] = @ + 1]
                          ELSE okLoads
            /\ Goto(t, "store")
       ELSE /\ Raise(t, [frame[t] EXCEPT !.load = "raised"],
                     Exc("UnboundLocalError",
                         "local variable 'g' referenced before assignment"))
            /\ UNCHANGED <<open_clients, okLoads>>
    /\ UNCHANGED <<environ, server, repo_cache, cache_lock, request, response,
                   nreq, built, returned, overlap, built_from>>

\* ------------------------------------------- get_or_create_index, continued
\* Lines 87-88: store the index load_github_docs returned, if it is one.
Store(t) ==
    /\ pc[t] = "store"
    /\ repo_cache' = IF ShouldStore(frame[t].ret)
                     THEN Put(repo_cache, frame[t].cache_key, frame[t].ret)
                     ELSE repo_cache
    /\ Goto(t, "return")
    /\ UNCHANGED <<environ, server, cache_lock, request, frame, response,
                   nreq, built, okLoads, returned, overlap,
                   open_clients, built_from>>

\* Line 89 and the end of the `with` block: return repo_cache.get(cache_key)
\* to query_docs (line 116) and release the lock.
ReturnIndex(t) ==
    /\ pc[t] = "return"
    /\ LET key == frame[t].cache_key
           value == Get(repo_cache, key)
       IN  /\ SetFrame(t, [frame[t] EXCEPT !.index = value])
           /\ returned' = IF value # None THEN [returned EXCEPT ![key] = value]
                          ELSE returned
    /\ cache_lock' = NoThread
    /\ Goto(t, "check_index")
    /\ UNCHANGED <<environ, server, repo_cache, request, response, nreq,
                   built, okLoads, overlap, open_clients, built_from>>

\* ---------------------------------------------------- query_docs, continued
\* A retrieved passage: response.source_nodes[i].node.text is its text.
Node(text) == [node |-> [text |-> text]]

\* What query_engine.query(query) can return: an answer with at most
\* similarity_top_k source nodes.
QueryResults ==
    { [response |-> a, source_nodes |-> [i \in DOMAIN ps |-> Node(ps[i])]] :
        a \in Answers, ps \in { r \in Rankings : Len(r) <= similarity_top_k } }

\* Lines 117-130: without an index answer 500; otherwise build the query
\* engine and run the query: the provider fails (it does without its key)
\* or returns an answer.
Query(t) ==
    /\ pc[t] = "check_index"
    /\ IF ~Truthy(frame[t].index)
       THEN Respond(t, 500, ErrorBody("Failed to load repository"))
       ELSE /\ \/ Raise(t, frame[t], Exc("APIError", "Connection error."))
               \/ /\ "OPENAI_API_KEY" \in environ
                  /\ \E r \in QueryResults :
                        SetFrame(t, [frame[t] EXCEPT !.result = r])
                  /\ Goto(t, "render")
            /\ UNCHANGED <<request, response, overlap>>
    /\ UNCHANGED <<environ, server, repo_cache, cache_lock, nreq, built,
                   okLoads, returned, open_clients, built_from>>

\* Mutant of Sources: the texts in reverse order.
SourcesReversed(result) ==
    [i \in 1..Len(result.source_nodes) |->
        result.source_nodes[Len(result.source_nodes) + 1 - i].node.text]

\* [str(node.node.text) for node in response.source_nodes]
Sources(result) ==
    [i \in 1..Len(result.source_nodes) |-> result.source_nodes[i].node.text]

\* jsonify({'response': str(response), 'sources': [...]})
AnswerBody(result) ==
    Body({"response", "sources"}, "", result.response, Sources(result), "")

\* Lines 132-135: render the answer and its sources (status 200).
Render(t) ==
    /\ pc[t] = "render"
    /\ Respond(t, 200, AnswerBody(frame[t].result))
    /\ UNCHANGED <<environ, server, repo_cache, cache_lock, nreq, built,
                   okLoads, returned, open_clients, built_from>>

\* ----------------------------------------------------------- specification
Next ==
    \/ MainStartup
    \/ ImportedServe
    \/ \E t \in Threads :
          \/ AcceptRequest(t)
          \/ HealthCheck(t)
          \/ QueryDocsValidate(t)
          \/ Except(t)
          \/ AcquireLock(t)
          \/ LoadTry(t)
          \/ LoadFinally(t)
          \/ Store(t)
          \/ ReturnIndex(t)
          \/ Query(t)
          \/ Render(t)

Spec == Init /\ [][Next]_vars

\* The steps of thread t's handler, from dispatch to the response.
Handle(t) ==
    \/ HealthCheck(t)
    \/ QueryDocsValidate(t)
    \/ Except(t)
    \/ AcquireLock(t)
    \/ LoadTry(t)
    \/ LoadFinally(t)
    \/ Store(t)
    \/ ReturnIndex(t)
    \/ Query(t)
    \/ Render(t)

\* Every request thread keeps being scheduled, and the calls it makes to the
\* loader's services and to the query engine end: a handler step that stays
\* possible is taken.  (Nothing is assumed about the arrival of requests.)
FairSpec == Spec /\ \A t \in Threads : WF_vars(Handle(t))

\* ================================================================== claims
\* Threads t and u have both returned from get_or_create_index calls for the
\* same key that were pending at the same time.
ConcurrentPair(t, u) ==
    /\ t # u
    /\ {t, u} \subseteq overlap
    /\ pc[t] = "check_index"
    /\ pc[u] = "check_index"
    /\ frame[t].cache_key = frame[u].cache_key

\* The calls among S that invoked load_github_docs.
Loaders(S) == { x \in S : frame[x].load # "" }

\* The load_github_docs invocations in progress for key k.
LoadsInProgress(k) ==
    { t \in Threads : pc[t] \in InLoad /\ frame[t].cache_key = k }

\* C1 as stated: concurrent get_or_create_index calls for the same key result
\* in exactly one load_github_docs invocation, so no two of them both invoke
\* it (stated for a process whose environment is complete).
C1_ExactlyOneLoad ==
    required_vars \subseteq environ
       => \A t, u \in Threads :
             ConcurrentPair(t, u) => Cardinality(Loaders({t, u})) <= 1

\* C1 amended: for every key at most one load_github_docs invocation is in
\* progress at a time, at most one ever returns an index and none is made
\* after that; concurrent calls that get an index get the same one from a
\* single invocation.
C1_OneIndexPerKey ==
    /\ \A k \in Keys : okLoads[k] + Cardinality(LoadsInProgress(k)) <= 1
    /\ \A t, u \in Threads :
          ConcurrentPair(t, u) /\ Truthy(frame[t].index) /\ Truthy(frame[u].index)
             => /\ frame[t].index = frame[u].index
                /\ Cardinality(Loaders({t, u})) <= 1

\* Two concurrent calls for one key have both returned the index that the
\* single invocation among them built.
C1_Witness ==
    \E t, u \in Threads :
        /\ ConcurrentPair(t, u)
        /\ Truthy(frame[t].index)
        /\ frame[t].index = frame[u].index
        /\ Cardinality(Loaders({t, u})) = 1

LoadFailed == HttpResponse(500, ErrorBody("Failed to load repository"))

\* load_github_docs has returned None to thread t's get_or_create_index call.
LoadReturnedNone(t) == frame[t].load = "returned" /\ frame[t].ret = None

\* C3: when load_github_docs returns no index (no documents, an exception
\* while resolving, fetching or building, a repo identifier with no '/'), no
\* cache entry is created for the key and the response is 500 with exactly
\* {error: "Failed to load repository"}.
C3_LoadFailure ==
    /\ [](\A t \in Threads :
            pc[t] = "return" /\ LoadReturnedNone(t)
               => frame[t].cache_key \notin DOMAIN repo_cache)
    /\ [][\A t \in Threads :
            pc[t] = "check_index" /\ LoadReturnedNone(t) /\ pc'[t] # "check_index"
               => /\ response'[t] = LoadFailed
                  /\ pc'[t] = "done"
                  /\ repo_cache' = repo_cache]_vars

\* A request has been answered "Failed to load repository" and the cache is
\* still empty.
C3_Witness ==
    \E t \in Threads :
        /\ pc[t] = "done"
        /\ response[t] = LoadFailed
        /\ DOMAIN repo_cache = {}

\* C4: a POST /query whose JSON body lacks `repo` or `query` is answered 400
\* {error: "Missing required parameters"} without touching the lock or the
\* cache (stated for a process whose environment is complete).
C4_MissingFields400 ==
    [][\A t \in Threads :
          (/\ required_vars \subseteq environ
           /\ pc[t] = "query_docs"
           /\ request[t].body.kind # "absent"
           /\ ~({"repo", "query"} \subseteq request[t].body.keys)
           /\ pc'[t] # "query_docs")
             => /\ pc'[t] = "done"
                /\ response'[t] =
                      HttpResponse(400, ErrorBody("Missing required parameters"))
                /\ UNCHANGED <<repo_cache, cache_lock>>]_vars

\* C5: load_github_docs never propagates an exception to its caller.
C5_LoadNeverRaises ==
    \A t \in Threads : frame[t].load # "raised"

\* C6: every POST /query ends in exactly one response, of status 200, 400 or
\* 500; an exception raised anywhere in the handler is answered 500 with
\* {error: str(e)} and never leaves query_docs.
C6_HandlerBoundary ==
    /\ [](\A t \in Threads :
            /\ pc[t] # "escaped"
            /\ pc[t] = "done" => response[t].status \in {200, 400, 500}
            /\ pc[t] \notin {"idle", "done"} => response[t] = NoResponse)
    /\ [][\A t \in Threads :
            pc[t] = "raised" /\ pc'[t] # "raised"
               => /\ pc'[t] = "done"
                  /\ response'[t] = HttpResponse(500, ErrorBody(frame[t].exc.msg))]_vars

\* An exception that left get_or_create_index has been answered 500 with its
\* message.
C6_Witness ==
    \E t \in Threads :
        /\ pc[t] = "done"
        /\ response[t] = HttpResponse(500,
              ErrorBody("local variable 'g' referenced before assignment"))

\* C7: with an index and an answer from the query engine, the response is
\* 200 with `response` the answer text and `sources` the texts of the source
\* nodes, same length, same order.
C7_AnswerRendered ==
    [][\A t \in Threads :
          pc[t] = "render" /\ pc'[t] # "render"
             => LET r == frame[t].result
                    b == response'[t].body
                IN  /\ response'[t].status = 200
                    /\ b.keys = {"response", "sources"}
                    /\ b.response = r.response
                    /\ Len(b.sources) = Len(r.source_nodes)
                    /\ \A i \in 1..Len(b.sources) :
                          b.sources[i] = r.source_nodes[i].node.text]_vars

\* A 200 response carries two sources in the engine's order p2, p1.
C7_Witness ==
    \E t \in Threads :
        /\ pc[t] = "done"
        /\ response[t].status = 200
        /\ response[t].body.response = "answer"
        /\ response[t].body.sources = <<"p2", "p1">>

\* C8: GET /health answers 200 {status: "healthy"} in every state, also
\* while another request holds the lock during a load; it never waits for
\* the lock and changes neither the lock nor the cache.
C8_HealthAlways ==
    \A t \in Threads :
        pc[t] = "health_check"
           => /\ ENABLED HealthCheck(t)
              /\ ~ENABLED (/\ HealthCheck(t)
                           /\ ~(/\ response'[t] = HttpResponse(200, HealthBody)
                                /\ repo_cache' = repo_cache
                                /\ cache_lock' = cache_lock))

\* A health check has been answered while another thread holds the lock
\* inside load_github_docs, in a process without its credentials.
C8_Witness ==
    \E t, u \in Threads :
        /\ pc[t] = "done"
        /\ response[t] = HttpResponse(200, HealthBody)
        /\ cache_lock = u
        /\ pc[u] \in InLoad
        /\ environ # required_vars

\* C9: on every exit of load_github_docs the close step has completed.
C9_ClientClosedOnExit ==
    \A t \in Threads :
        frame[t].load \in {"returned", "raised"} => frame[t].closed

\* C10: no request is served by a process in which a required environment
\* variable was unset at start-up.
C10_NoServingWithoutEnv ==
    (\E t \in Threads : pc[t] = "done") => required_vars \subseteq environ

\* The response to a request that fails validation.
MissingParameters ==
    HttpResponse(400, ErrorBody("Missing required parameters"))

\* C11: a POST /query with no body is answered 400
\* {error: "Missing required parameters"}, never by the except clause
\* (stated for a process whose environment is complete).
C11_AbsentBody400 ==
    [][\A t \in Threads :
          (/\ required_vars \subseteq environ
           /\ pc[t] = "query_docs"
           /\ request[t].body.kind = "absent"
           /\ pc'[t] # "query_docs")
             => /\ pc'[t] = "done"
                /\ response'[t] = MissingParameters]_vars

\* Thread t is inside the `with cache_lock:` block of get_or_create_index:
\* at one of its statements, or unwinding from it with an exception.
InCriticalSection(t) ==
    \/ pc[t] \in InGetOrCreate \ {"get_or_create_index"}
    \/ pc[t] = "raised" /\ frame[t].load = "raised"

\* C12: the lock is held for the whole get-or-create operation: a thread
\* inside the critical section holds the lock, at most one thread is inside
\* it and at most one load_github_docs invocation is in progress, whatever
\* the cache keys of the requests.
C12_GlobalLockSerializes ==
    /\ \A t \in Threads : InCriticalSection(t) => cache_lock = t
    /\ Cardinality({ t \in Threads : InCriticalSection(t) }) <= 1
    /\ Cardinality({ t \in Threads : pc[t] \in InLoad }) <= 1

\* A request for one key is loading while a request for a different key
\* waits for the lock.
C12_Witness ==
    \E t, u \in Threads :
        /\ pc[t] \in InLoad
        /\ pc[u] = "get_or_create_index"
        /\ frame[u].cache_key # frame[t].cache_key
        /\ ~ENABLED AcquireLock(u)

\* C13: cache entries are permanent and written once: no step removes a key
\* or replaces its value, and every write is to a key that is absent, so
\* each key is written at most once.
C13_EntriesPermanent ==
    [][/\ \A k \in DOMAIN repo_cache :
             k \in DOMAIN repo_cache' /\ repo_cache'[k] = repo_cache[k]
       /\ \A t \in Threads :
             (/\ pc[t] = "store"
              /\ pc'[t] # "store"
              /\ repo_cache' # repo_cache)
                => /\ frame[t].cache_key \notin DOMAIN repo_cache
                   /\ DOMAIN repo_cache' = DOMAIN repo_cache \cup {frame[t].cache_key}
       /\ repo_cache' # repo_cache
             => \E t \in Threads : pc[t] = "store" /\ pc'[t] # "store"]_vars

\* With an entry in the cache, a load for another key has failed and has
\* left that entry as it was.
C13_Witness ==
    \E t \in Threads :
        /\ pc[t] = "return"
        /\ LoadReturnedNone(t)
        /\ \E k \in DOMAIN repo_cache :
              /\ k # frame[t].cache_key
              /\ repo_cache[k] = returned[k]

\* C14: a load that returns None is not cached: the store step leaves
\* repo_cache unchanged and get_or_create_index returns None with the key
\* absent; every call that finds its key absent invokes load_github_docs
\* (again), so a later load can still populate the key.
C14_NoNegativeCaching ==
    [][\A t \in Threads :
          /\ (pc[t] = "store" /\ LoadReturnedNone(t) /\ pc'[t] # "store")
                => repo_cache' = repo_cache
          /\ (pc[t] = "return" /\ LoadReturnedNone(t) /\ pc'[t] # "return")
                => /\ frame'[t].index = None
                   /\ frame[t].cache_key \notin DOMAIN repo_cache'
          /\ (/\ pc[t] = "get_or_create_index"
              /\ pc'[t] # "get_or_create_index"
              /\ frame[t].cache_key \notin DOMAIN repo_cache)
                => /\ pc'[t] = "load_github_docs"
                   /\ frame'[t].load = "called"]_vars

\* Of two calls for one key, the first got None from a failed load and the
\* second loaded again, stored the index and returned it.
C14_Witness ==
    \E t, u \in Threads :
        /\ ConcurrentPair(t, u)
        /\ LoadReturnedNone(t)
        /\ frame[t].index = None
        /\ frame[u].load = "returned"
        /\ Truthy(frame[u].index)
        /\ Get(repo_cache, frame[u].cache_key) = frame[u].index

\* Thread t is handling a POST /query that passed validation.
Validated(t) ==
    pc[t] \in InGetOrCreate \cup {"check_index", "render"}

\* Thread t's get_or_create_index call has returned an index.
GotIndex(t) ==
    pc[t] \in {"check_index", "render"} /\ frame[t].index # None

\* The branch a request asks for: the one its body names, "main" when the
\* body names none.
RequestedBranch(t) ==
    IF "branch" \in request[t].body.keys
    THEN request[t].body.branch
    ELSE <<"m", "a", "i", "n">>

\* C15: the cache key of a request is repo + ":" + branch, the branch being
\* "main" when omitted.  Requests for one repo with the same branch (omitted
\* and "main" included) have the same key and, once both have an index, the
\* same index, at most one of them having loaded it; requests for one repo
\* with different branches have different keys and different indexes.
C15_KeyIsRepoAndBranch ==
    /\ \A t \in Threads :
          Validated(t)
             => frame[t].cache_key =
                   request[t].body.repo \o <<":">> \o RequestedBranch(t)
    /\ \A t, u \in Threads :
          (/\ t # u
           /\ Validated(t)
           /\ Validated(u)
           /\ request[t].body.repo = request[u].body.repo)
             => IF RequestedBranch(t) = RequestedBranch(u)
                THEN /\ frame[t].cache_key = frame[u].cache_key
                     /\ GotIndex(t) /\ GotIndex(u)
                           => /\ frame[t].index = frame[u].index
                              /\ Cardinality(Loaders({t, u})) <= 1
                ELSE /\ frame[t].cache_key # frame[u].cache_key
                     /\ GotIndex(t) /\ GotIndex(u)
                           => frame[t].index # frame[u].index

\* A request that omits `branch` and one that names "main", for the same
\* repo, have the same index, loaded by one of them.
C15_Witness ==
    \E t, u \in Threads :
        /\ GotIndex(t)
        /\ GotIndex(u)
        /\ request[t].body.repo = request[u].body.repo
        /\ "branch" \notin request[t].body.keys
        /\ "branch" \in request[u].body.keys
        /\ request[u].body.branch = main
        /\ frame[t].index = frame[u].index
        /\ Cardinality(Loaders({t, u})) = 1

\* C16: the lock is released on every exit of get_or_create_index, also
\* when load_github_docs raises: only a thread inside the `with` block holds
\* it, and an exception leaving the block leaves the lock free.  Hence, with
\* fair scheduling and terminating external calls, a request in progress is
\* never stuck (some handler step is possible) and every POST /query is
\* eventually answered.
C16_LockReleasedAndProgress ==
    /\ [](\A t \in Threads : cache_lock = t => InCriticalSection(t))
    /\ [][\A t \in Threads :
            InCriticalSection(t) /\ ~InCriticalSection(t)'
               => cache_lock' = NoThread]_vars
    /\ []((\E t \in Threads : pc[t] \notin {"idle", "done"})
            => ENABLED (\E u \in Threads : Handle(u)))
    /\ \A t \in Threads : (pc[t] = "query_docs") ~> (pc[t] = "done")

\* One request's load has raised and has been answered; another request for
\* the same key, pending at that time, now holds the lock.
C16_Witness ==
    \E t, u \in Threads :
        /\ pc[t] = "done"
        /\ response[t] = HttpResponse(500,
              ErrorBody("local variable 'g' referenced before assignment"))
        /\ u \in overlap
        /\ cache_lock = u
        /\ pc[u] \in InLoad

\* The repo_name and branch given to the load_github_docs invocation that
\* returned index i.
BuiltFrom(i) == built_from[i]

\* C17: every value in repo_cache is an index, never None, returned by a
\* load_github_docs invocation made with the repo and branch of the request
\* that stored it under that key; so get_or_create_index returns None
\* exactly when the key is absent after the load attempt.
C17_CacheHoldsLoadedIndexes ==
    /\ [](\A k \in DOMAIN repo_cache :
            /\ repo_cache[k] # None
            /\ repo_cache[k] \in 1..Len(built_from)
            /\ k = BuiltFrom(repo_cache[k]).repo_name \o <<":">>
                      \o BuiltFrom(repo_cache[k]).branch)
    /\ [][\A t \in Threads :
            /\ (pc[t] = "store" /\ pc'[t] # "store" /\ repo_cache' # repo_cache)
                  => /\ repo_cache'[frame[t].cache_key] = frame[t].ret
                     /\ frame[t].load = "returned"
                     /\ BuiltFrom(frame[t].ret) =
                           [repo_name |-> request[t].body.repo,
                            branch |-> RequestedBranch(t)]
            /\ (pc[t] = "return" /\ pc'[t] # "return")
                  => (frame'[t].index = None
                         <=> frame[t].cache_key \notin DOMAIN repo_cache')]_vars

\* The cache holds an index stored by the request that loaded it, and a
\* call whose load failed has returned None, its key being absent.
C17_Witness ==
    \E t, u \in Threads :
        /\ pc[t] = "check_index"
        /\ frame[t].load = "returned"
        /\ frame[t].index = None
        /\ frame[t].cache_key \notin DOMAIN repo_cache
        /\ pc[u] = "check_index"
        /\ frame[u].load = "returned"
        /\ frame[u].index # None
        /\ repo_cache[frame[u].cache_key] = frame[u].index

\* C18: a cache key identifies one (repo, branch) pair, so the index a
\* request gets was built for that request's own repo and branch (stated
\* for a process whose environment is complete).
C18_KeyIdentifiesRepoAndBranch ==
    required_vars \subseteq environ
       => \A t \in Threads :
             GotIndex(t)
                => BuiltFrom(frame[t].index) =
                      [repo_name |-> request[t].body.repo,
                       branch |-> RequestedBranch(t)]

====
